---- MODULE Spec2Model ----
(***************************************************************************)
(* Model of GrokVideoAutomation.run_automation                             *)
(* (src/grok_video_automation.py): the linear phase workflow, its polling  *)
(* loops, the "Make video" target resolution and click chain, the run      *)
(* record written by save_learning_data and the driver teardown.           *)
(*                                                                         *)
(* Time is counted in half-second ticks (the shortest sleep of the code is *)
(* time.sleep(0.5)); every loop reads its own clock t, started at 0 when   *)
(* the loop's start_time is taken.  int(time.time() - start_time) is       *)
(* t \div 2.  One poll iteration costs the loop's sleep plus Latency ticks *)
(* of browser round trips.                                                 *)
(***************************************************************************)
EXTENDS Integers, Sequences, FiniteSets, TLC

\* ---------------------------------------------------------------- bounds
\* ticks one poll iteration spends in driver calls, on top of its sleep
Latency == 18
\* number of <button> elements of a DOM snapshot
MaxButtons == 2
\* number of <textarea> elements of a DOM snapshot
MaxTextareas == 2
\* number of <video> elements of a DOM snapshot
MaxVideos == 2
\* lines other than "ready" the user types at wait_for_manual_login's prompt
MaxInputs == 2

\* ------------------------------------------------------ program constants
\* max_wait of the chip wait, seconds
ChipMaxWait == 15
\* max_wait of wait_for_prompt_textarea, seconds
PromptMaxWait == 60
\* max_wait of monitor_video_generation, seconds
MonitorMaxWait == 180
\* max_wait_for_button of download_video, seconds
DownloadMaxWait == 30
\* clock ticks per second: the shortest sleep, time.sleep(0.5), is one tick
TicksPerSecond == 2

\* seconds -> ticks
Ticks(s) == TicksPerSecond * s
\* int(time.time() - start_time)
Elapsed(ticks) == ticks \div TicksPerSecond

\* the sleep that ends an iteration of each polling loop: time.sleep(0.5),
\* time.sleep(1), time.sleep(2), time.sleep(1)
ChipSleep == TicksPerSecond \div 2
PromptSleep == Ticks(1)
MonitorSleep == Ticks(2)
DownloadSleep == Ticks(1)

VARIABLES
  pc,          \* position of the control flow of run_automation
  calls,       \* the phase functions invoked so far, in order
  rets,        \* <<phase, result>> of the phase functions that returned
  retval,      \* what run_automation returns: "unset", "True", "False"
  driver,      \* self.driver: "None" or "live"
  quit,        \* driver.quit() has been called
  t,           \* clock of the current polling loop, ticks
  chip_divs,   \* local of click_edit_image_button: "none","hidden","visible"
  dom,         \* the DOM snapshot click_make_video_button searches
  button,      \* local button of click_make_video_button
  resolution,  \* which strategies its search evaluated, and how it ended
  clickOuts,   \* what each click method of its chain does when called
  attempts,    \* click methods tried by click_make_video_button's chain
  methodUsed,  \* the method its chain reported ("Clicked with ..."), or "none"
  video_element, \* what monitor_video_generation returned
  flags,       \* the instance attributes set by the phases
  record,      \* automation_run_data.json, NoRecord until written
  saves,       \* number of times save_learning_data ran
  events,      \* what happened, for the record of the run (console output)
  clicks,      \* the click chain last run at the chip, Edit image or download
               \* site: the methods called and what each did
  textareas,   \* the <textarea> snapshot find_and_enter_prompt queried
  videos,      \* the page's <video> elements as the monitor's polls saw them
  early,       \* what navigate_to_grok or upload_image, the last of them to
               \* run, met: the page, the loaded hints, the focus nudge
  located,     \* the strategy that located the Make video button, 0: none
  \* twitter_selenium_test.py, TwitterAutomationTester.run_test
  tw_pc,       \* where run_test is
  tw_calls,    \* the methods run_test invoked so far, in order
  tw_rets,     \* <<method, result>> of the methods that returned
  tw_retval,   \* what run_test returns: "unset", "True", "False"
  tw_driver,   \* self.driver: "None" or "live"
  tw_quit,     \* driver.quit() has been called
  tw_page,     \* what the browser shows: URL, page source, tweet button
  tw_inputs,   \* lines wait_for_manual_login read that were not "ready"
  tw_events    \* exceptions that left a method uncaught, and where

ctl   == <<pc, calls, rets, retval>>
sess  == <<driver, quit>>
mv    == <<dom, button, resolution, clickOuts, attempts, methodUsed>>
out   == <<record, saves>>
hist  == <<early, located>>
obs   == <<clicks, textareas, videos, early, located>>
vars  == <<pc, calls, rets, retval, driver, quit, t, chip_divs, dom, button,
           resolution, clickOuts, attempts, methodUsed, video_element, flags,
           record, saves, events, clicks, textareas, videos, early, located,
           tw_pc, tw_calls, tw_rets, tw_retval, tw_driver, tw_quit, tw_page,
           tw_inputs, tw_events>>
grok    == <<pc, calls, rets, retval, driver, quit, t, chip_divs, dom, button,
             resolution, clickOuts, attempts, methodUsed, video_element,
             flags, record, saves, events, clicks, textareas, videos, early,
             located>>
twitter == <<tw_pc, tw_calls, tw_rets, tw_retval, tw_driver, tw_quit, tw_page,
             tw_inputs, tw_events>>

\* the page before anything was loaded
BlankPage == [url |-> "about:blank", source |-> "", tweetButton |-> FALSE]

\* TwitterAutomationTester(): nothing started
TwitterInit ==
  /\ tw_pc = "setup_driver"
  /\ tw_calls = <<>>
  /\ tw_rets = <<>>
  /\ tw_retval = "unset"
  /\ tw_driver = "None"
  /\ tw_quit = FALSE
  /\ tw_page = BlankPage
  /\ tw_inputs = 0
  /\ tw_events = {}

NoRecord == [written |-> FALSE]
NoButton == [none |-> TRUE]
NoDom    == [buttons |-> <<>>, footerDisp |-> FALSE, stale |-> 0]
NoResolution == [tried |-> {}, aborted |-> FALSE]
NoClicks == [site |-> "none", names |-> <<>>, outs |-> <<>>]
NoTextareas == [queried |-> FALSE, els |-> <<>>, steps |-> <<>>]
\* json.load's value for upload_learning_data.json, as far as upload_image
\* looks into it.  json: None (no file, or not JSON), an empty or non-empty
\* list, an empty or non-empty dict; rec: its "recommendations" entry;
\* wait: the "wait_time" entry of that, a number or a string.
NoHints == [json |-> "None", rec |-> "absent", wait |-> "absent"]
NoEarly ==
  [phase |-> "none", ui |-> "none", hints |-> NoHints, wait |-> "5",
   focus |-> FALSE]
\* on: the polls of the monitor are being observed.  els, idx, at: the
\* snapshot of the latest poll, the video it accepted (0: none) and the
\* poll's clock.  stableAt: the clock at which a displayed video with a
\* well-formed src came to be in the page for good (-1: not so far).
\* empties: earlier polls that saw a video with an empty src, up to 2.
NoVideos ==
  [on |-> FALSE, els |-> <<>>, idx |-> 0, at |-> 0, stableAt |-> -1,
   empties |-> 0]

\* GrokVideoAutomation.__init__: the "Phase 3 learning data" attributes
InitFlags ==
  [make_video_button_found     |-> FALSE,
   make_video_button_text      |-> "None",
   prompt_textarea_found       |-> FALSE,
   prompt_textarea_placeholder |-> "None",
   wait_time_worked            |-> 0,
   video_generation_started    |-> FALSE,
   video_generation_time       |-> 0,
   video_downloaded            |-> FALSE]

Init ==
  /\ pc = "setup_driver"
  /\ calls = <<>>
  /\ rets = <<>>
  /\ retval = "unset"
  /\ driver = "None"
  /\ quit = FALSE
  /\ t = 0
  /\ chip_divs = "none"
  /\ dom = NoDom
  /\ button = NoButton
  /\ resolution = NoResolution
  /\ clickOuts = <<>>
  /\ attempts = <<>>
  /\ methodUsed = "none"
  /\ video_element = "unset"
  /\ flags = InitFlags
  /\ record = NoRecord
  /\ saves = 0
  /\ events = {}
  /\ clicks = NoClicks
  /\ textareas = NoTextareas
  /\ videos = NoVideos
  /\ early = NoEarly
  /\ located = 0
  /\ TwitterInit

\* ----------------------------------------------------- exception handling
\* Python's except clauses: "except Exception" catches Exception but not
\* KeyboardInterrupt (a BaseException); a bare "except:" catches both.
CaughtAll(clause, exc) == TRUE
Caught(clause, exc) == clause = "bare" \/ exc = "Exception"

\* ------------------------------------------------------------ run_automation
\* the if-not-phase()-return-False ladder: where control goes when phase p
\* returned v.  "finally" is the finally clause, reached by every return.
\* The result of download_video is not looked at.
NextPcSkipWait(p, v) ==
  IF p = "download_video" THEN "summary"
  ELSE IF ~v THEN "finally"
  ELSE CASE p = "setup_driver"             -> "navigate_to_grok"
         [] p = "navigate_to_grok"         -> "upload_image"
         [] p = "upload_image"             -> "click_edit_image_button"
         [] p = "click_edit_image_button"  -> "click_make_video_button"
         [] p = "click_make_video_button"  -> "find_and_enter_prompt"
         [] p = "wait_for_prompt_textarea" -> "find_and_enter_prompt"
         [] p = "find_and_enter_prompt"    -> "monitor_video_generation"
         [] OTHER                          -> "finally"
NextPcNoStop(p, v) ==
  CASE p = "download_video"           -> "summary"
    [] p = "setup_driver"             -> IF v THEN "navigate_to_grok" ELSE "finally"
    [] p = "navigate_to_grok"         -> IF v THEN "upload_image" ELSE "finally"
    [] p = "upload_image"             -> "click_edit_image_button"
    [] p = "click_edit_image_button"  -> IF v THEN "click_make_video_button" ELSE "finally"
    [] p = "click_make_video_button"  -> IF v THEN "wait_for_prompt_textarea" ELSE "finally"
    [] p = "wait_for_prompt_textarea" -> IF v THEN "find_and_enter_prompt" ELSE "finally"
    [] p = "find_and_enter_prompt"    -> IF v THEN "monitor_video_generation" ELSE "finally"
    [] OTHER                          -> "finally"
NextPcPromptSoft(p, v) ==
  IF p = "download_video" THEN "summary"
  ELSE IF p = "find_and_enter_prompt" THEN "monitor_video_generation"
  ELSE IF ~v THEN "finally"
  ELSE CASE p = "setup_driver"             -> "navigate_to_grok"
         [] p = "navigate_to_grok"         -> "upload_image"
         [] p = "upload_image"             -> "click_edit_image_button"
         [] p = "click_edit_image_button"  -> "click_make_video_button"
         [] p = "click_make_video_button"  -> "wait_for_prompt_textarea"
         [] p = "wait_for_prompt_textarea" -> "find_and_enter_prompt"
         [] OTHER                          -> "finally"
NextPc(p, v) ==
  IF p = "download_video" THEN "summary"
  ELSE IF ~v THEN "finally"
  ELSE CASE p = "setup_driver"             -> "navigate_to_grok"
         [] p = "navigate_to_grok"         -> "upload_image"
         [] p = "upload_image"             -> "click_edit_image_button"
         [] p = "click_edit_image_button"  -> "click_make_video_button"
         [] p = "click_make_video_button"  -> "wait_for_prompt_textarea"
         [] p = "wait_for_prompt_textarea" -> "find_and_enter_prompt"
         [] p = "find_and_enter_prompt"    -> "monitor_video_generation"
         [] OTHER                          -> "finally"

\* after monitor_video_generation: "if video_element: download_video(...)"
AfterMonitorStrict(elem) ==
  IF elem # "None" THEN "download_video" ELSE "finally"
AfterMonitor(elem) == IF elem # "None" THEN "download_video" ELSE "summary"

\* phase p is invoked
Invoke(p) == calls' = Append(calls, p)

\* phase p returns v to the ladder
Returns(p, v) ==
  /\ rets' = Append(rets, <<p, IF v THEN "True" ELSE "False">>)
  /\ pc' = NextPc(p, v)
  /\ retval' = IF NextPc(p, v) = "finally" THEN "False" ELSE retval

\* exception exc (raised at place "at") leaves phase p, whose outermost
\* handler is "except Exception" and makes the phase return onExc.  What it
\* does not catch reaches run_automation's "except KeyboardInterrupt:
\* return False".
Raises(p, exc, at, onExc) ==
  IF Caught("Exception", exc)
  THEN /\ Returns(p, onExc)
       /\ events' = events \cup {exc \o ":" \o at}
  ELSE /\ rets' = rets
       /\ pc' = "finally"
       /\ retval' = "False"
       /\ events' = events \cup {exc \o ":" \o at}

Excs == {"Exception", "KeyboardInterrupt"}

\* ------------------------------------------------------------- setup_driver
\* uc.Chrome() either returns a driver, which is then assigned, or raises;
\* WebDriverWait / maximize_window / sleep may raise afterwards.
SetupDriver ==
  /\ pc = "setup_driver"
  /\ Invoke("setup_driver")
  /\ \E o \in {"ok", "chrome_raises", "after_raises"}, exc \in Excs :
       /\ driver' = IF o = "chrome_raises" THEN "None" ELSE "live"
       /\ IF o = "ok"
          THEN Returns("setup_driver", TRUE) /\ events' = events
          ELSE Raises("setup_driver", exc, "setup_driver", FALSE)
  /\ UNCHANGED <<quit, t, chip_divs, mv, video_element, flags, out, obs>>
  /\ UNCHANGED twitter

\* focus_page: what its caller gets.  Its "except Exception" catches what
\* the pointer action raises and returns True like the try block does; the
\* callers do not look at the value.
focus_pageUncaught(actionRaises) == IF actionRaises THEN "raises" ELSE "True"
focus_page(actionRaises) == "True"

\* ---------------------------------------------------------- navigate_to_grok
NavigateToGrok ==
  /\ pc = "navigate_to_grok"
  /\ Invoke("navigate_to_grok")
  /\ \E o \in {"ok", "get_raises"}, focusRaises \in BOOLEAN, exc \in Excs :
       /\ early' = [NoEarly EXCEPT !.phase = "navigate_to_grok", !.ui = o,
                                   !.focus = (o = "ok" /\ focusRaises)]
       /\ IF o = "ok"
          THEN IF focus_page(focusRaises) = "raises"
               THEN Raises("navigate_to_grok", "Exception", "focus_page",
                           FALSE)
               ELSE Returns("navigate_to_grok", TRUE) /\ events' = events
          ELSE Raises("navigate_to_grok", exc, "navigate_to_grok", FALSE)
  /\ UNCHANGED <<sess, t, chip_divs, mv, video_element, flags, out, clicks,
                 textareas, videos, located>>
  /\ UNCHANGED twitter

\* -------------------------------------------------------------- upload_image
\* self.upload_learning, loaded by __init__ and read by upload_image only
Hints ==
  {h \in [json : {"None", "[]", "[1]", "{}", "{..}"},
          rec  : {"absent", "null", "dict"},
          wait : {"absent", "3", "'3'"}] :
     /\ h.json # "{..}" => h.rec = "absent"
     /\ h.rec # "dict" => h.wait = "absent"}

\* "if self.upload_learning": None and the empty containers are false
Truthy(h) == h.json \in {"[1]", "{..}"}

\* upload_learning.get("recommendations", {}).get("wait_time", 5) raises
\* AttributeError on a list and on a recommendations entry that is null
HintsRaise(h) == Truthy(h) /\ (h.json = "[1]" \/ h.rec = "null")

\* wait_time: 5 unless the hints give one
WaitTime(h) ==
  IF Truthy(h) /\ h.rec = "dict" /\ h.wait # "absent" THEN h.wait ELSE "5"

\* time.sleep(wait_time) raises TypeError when wait_time is not a number
SleepRaises(w) == w \notin {"5", "3"}

UploadImage ==
  /\ pc = "upload_image"
  /\ Invoke("upload_image")
  /\ \E o \in {"ok", "no_file_inputs", "raises"}, focusRaises \in BOOLEAN,
        exc \in Excs, h \in Hints :
       /\ early' = [phase |-> "upload_image", ui |-> o, hints |-> h,
                    wait |-> IF HintsRaise(h) THEN "5" ELSE WaitTime(h),
                    focus |-> /\ o = "ok"
                              /\ ~HintsRaise(h)
                              /\ ~SleepRaises(WaitTime(h))
                              /\ focusRaises]
       /\ IF HintsRaise(h)
          THEN Raises("upload_image", "Exception", "wait_time", FALSE)
          ELSE CASE o = "ok" ->
                      IF SleepRaises(WaitTime(h))
                      THEN Raises("upload_image", "Exception", "upload_sleep",
                                  FALSE)
                      ELSE IF focus_page(focusRaises) = "raises"
                      THEN Raises("upload_image", "Exception", "focus_page",
                                  FALSE)
                      ELSE Returns("upload_image", TRUE) /\ events' = events
                 [] o = "no_file_inputs" ->
                      Returns("upload_image", FALSE) /\ events' = events
                 [] OTHER ->
                      Raises("upload_image", exc, "upload_image", FALSE)
  /\ UNCHANGED <<sess, t, chip_divs, mv, video_element, flags, out, clicks,
                 textareas, videos, located>>
  /\ UNCHANGED twitter

\* ----------------------------------------------------------- polling loops
\* time.sleep(interval) of a polling loop of phase p, entered at pc "at" and
\* followed by the next evaluation of the loop condition at pc "poll".  A
\* KeyboardInterrupt raised during the sleep leaves the phase through its
\* handler (Raises).
SleepNever(p, at, poll, interval, onExc) ==
  /\ pc = at
  /\ \/ /\ t' = t + Latency
        /\ pc' = poll
        /\ UNCHANGED <<rets, retval, events>>
     \/ /\ Raises(p, "KeyboardInterrupt", at, onExc)
        /\ t' = 0
Sleep(p, at, poll, interval, onExc) ==
  /\ pc = at
  /\ \/ /\ t' = t + interval + Latency
        /\ pc' = poll
        /\ UNCHANGED <<rets, retval, events>>
     \/ /\ Raises(p, "KeyboardInterrupt", at, onExc)
        /\ t' = 0

\* --------------------------------------------------- click_edit_image_button
EnterClickEdit ==
  /\ pc = "click_edit_image_button"
  /\ Invoke("click_edit_image_button")
  /\ t' = 0
  /\ chip_divs' = "none"
  /\ pc' = "chip_poll"
  /\ early' = NoEarly
  /\ UNCHANGED <<rets, retval, sess, mv, video_element, flags, out, events,
                 clicks, textareas, videos, located>>
  /\ UNCHANGED twitter

\* one iteration of "while time.time() - start_time < max_wait": the query
\* for chips and the filter on is_displayed()
ChipPoll ==
  /\ pc = "chip_poll"
  /\ t < Ticks(ChipMaxWait)
  /\ \/ \E found \in {"none", "hidden", "visible"} :
          /\ chip_divs' = found
          /\ pc' = IF found = "visible" THEN "chip_click" ELSE "chip_sleep"
          /\ t' = IF found = "visible" THEN 0 ELSE t
          /\ UNCHANGED <<rets, retval, events>>
     \/ \E exc \in Excs :
          /\ Raises("click_edit_image_button", exc, "chip_poll", FALSE)
          /\ chip_divs' = "none"
          /\ t' = 0
  /\ UNCHANGED <<calls, sess, mv, video_element, flags, out, obs>>
  /\ UNCHANGED twitter

ChipSleepStep ==
  /\ Sleep("click_edit_image_button", "chip_sleep", "chip_poll", ChipSleep, FALSE)
  /\ UNCHANGED <<calls, sess, chip_divs, mv, video_element, flags, out, obs>>
  /\ UNCHANGED twitter

\* the loop ran out of time: "if not chip_divs: return False" looks at the
\* result of the last query, displayed or not
ChipTimeout ==
  /\ pc = "chip_poll"
  /\ t >= Ticks(ChipMaxWait)
  /\ IF chip_divs = "none"
     THEN Returns("click_edit_image_button", FALSE)
     ELSE /\ pc' = "chip_click"
          /\ UNCHANGED <<rets, retval>>
  /\ t' = 0
  /\ UNCHANGED <<calls, sess, chip_divs, mv, video_element, flags, out,
                 events, obs>>
  /\ UNCHANGED twitter

\* first index i with ok[i], 0 when there is none: a chain of attempts that
\* stops at the first one that does not raise
FirstOk(ok) ==
  IF \E i \in DOMAIN ok : ok[i]
  THEN CHOOSE i \in DOMAIN ok : ok[i] /\ \A j \in 1..(i-1) : ~ok[j]
  ELSE 0

\* the chip loop and its fallback: a chip whose image src contains "content"
\* is clicked by chip.click(), JS click, figure.click(), img.click(), each
\* inside a bare except; when no chip was clicked, a JS click on the first chip
ChipClicked(hasContentImg, chipClicks, fallbackOk) ==
  \/ hasContentImg /\ FirstOk(chipClicks) # 0
  \/ fallbackOk

\* the "Edit image" button: native click, then JS click, each in a bare except
EditClicked(editFound, editClicks) ==
  editFound /\ FirstOk(editClicks) # 0

\* the click methods in the order the code calls them at each site
ChipMethods == <<"native", "JavaScript", "figure", "img">>
EditMethods == <<"native", "JavaScript">>
DownloadMethods == <<"native", "JavaScript">>

\* the calls a chain makes: up to and including the first that does not raise
Tried(ok) ==
  SubSeq(ok, 1, IF FirstOk(ok) = 0 THEN Len(ok) ELSE FirstOk(ok))

\* the chain run on the chip: the four methods on a chip with a content
\* image, then the JS click on the first chip when none of them clicked
ChipChain(hasContentImg, chipClicks, fallbackOk) ==
  LET first == IF hasContentImg THEN Tried(chipClicks) ELSE <<>>
      again == ~(hasContentImg /\ FirstOk(chipClicks) # 0)
  IN  [site  |-> "chip",
       names |-> SubSeq(ChipMethods, 1, Len(first))
                   \o (IF again THEN <<"JavaScript">> ELSE <<>>),
       outs  |-> first \o (IF again THEN <<fallbackOk>> ELSE <<>>)]

\* the chain run on the "Edit image" button, when there is one
EditChain(editFound, editClicks) ==
  LET done == IF editFound THEN Tried(editClicks) ELSE <<>>
  IN  [site  |-> "edit",
       names |-> SubSeq(EditMethods, 1, Len(done)),
       outs  |-> done]

ClickChipAndEdit ==
  /\ pc = "chip_click"
  /\ \/ \E hasContentImg \in BOOLEAN, chipClicks \in [1..4 -> BOOLEAN],
           fallbackOk \in BOOLEAN, editFound \in BOOLEAN,
           editClicks \in [1..2 -> BOOLEAN] :
          /\ Returns("click_edit_image_button",
                     /\ ChipClicked(hasContentImg, chipClicks, fallbackOk)
                     /\ EditClicked(editFound, editClicks))
          /\ clicks' = IF ChipClicked(hasContentImg, chipClicks, fallbackOk)
                       THEN EditChain(editFound, editClicks)
                       ELSE ChipChain(hasContentImg, chipClicks, fallbackOk)
          /\ events' = events
     \/ \E exc \in Excs :
          /\ Raises("click_edit_image_button", exc, "chip_click", FALSE)
          /\ clicks' = NoClicks
  /\ chip_divs' = "none"
  /\ UNCHANGED <<calls, sess, t, mv, video_element, flags, out, textareas,
                 videos,
                 hist>>
  /\ UNCHANGED twitter

\* --------------------------------------------------- click_make_video_button
\* The DOM snapshot the three strategies query: the <button> elements in
\* document order.  label: the element's text and aria-label.  footer: the
\* button is inside the <footer>; footerDisp: footer.is_displayed().  xp: the
\* button is the one at /html/body/div[7]/div/footer/div/div/div[1]/button.
\* stale: index of a button whose handle raises when it is used (the element
\* was replaced after the query returned it), 0 for none.
Labels ==
  { [text |-> " Make video ", aria |-> ""],
    [text |-> "Make",         aria |-> ""],
    [text |-> "",             aria |-> "Create VIDEO"],
    [text |-> "OK",           aria |-> ""] }

Buttons ==
  { b \in [disp : BOOLEAN, label : Labels, footer : BOOLEAN, xp : BOOLEAN] :
      b.xp => b.footer }

Doms ==
  { d \in [buttons : UNION {[1..n -> Buttons] : n \in 0..MaxButtons},
           footerDisp : BOOLEAN, stale : 0..MaxButtons] :
      /\ d.stale <= Len(d.buttons)
      /\ \A i, j \in DOMAIN d.buttons :
           d.buttons[i].xp /\ d.buttons[j].xp => i = j
      /\ \A i \in DOMAIN d.buttons :
           d.buttons[i].footer /\ ~d.footerDisp => ~d.buttons[i].disp }

\* WebElement.text: the rendered text, empty for an element not displayed
ElementText(b) == IF b.disp THEN b.label.text ELSE ""

\* str.strip()
Strip(s) == IF s = " Make video " THEN "Make video" ELSE s
\* str.lower()
Lower(s) ==
  CASE s = "Make video"   -> "make video"
    [] s = " Make video " -> " make video "
    [] s = "Make"         -> "make"
    [] s = "Create VIDEO" -> "create video"
    [] s = "OK"           -> "ok"
    [] OTHER              -> s
\* kw in s
Contains(s, kw) ==
  CASE kw = "video" -> s \in {"make video", " make video ", "create video"}
    [] kw = "make"  -> s \in {"make video", " make video ", "make"}
    [] OTHER        -> FALSE

\* least element of a non-empty set of indices, 0 for the empty set
MinOrZero(S) == IF S = {} THEN 0 ELSE CHOOSE i \in S : \A j \in S : i <= j

\* Strategy 1: button = find_element(By.XPATH, ...); the is_displayed() that
\* follows only prints.  NoSuchElementException, and whatever is_displayed()
\* raises, is swallowed by the bare except; the assignment stays.
Strategy1(d) == MinOrZero({i \in DOMAIN d.buttons : d.buttons[i].xp})

\* Strategy 2: the first displayed button with "video" in its text or
\* aria-label.  Not inside a try of its own: raised is TRUE when a handle
\* raises before a match is found.
Strategy2Match(d, i) ==
  /\ d.buttons[i].disp
  /\ \/ Contains(Lower(Strip(ElementText(d.buttons[i]))), "video")
     \/ Contains(Lower(d.buttons[i].label.aria), "video")
Strategy2(d) ==
  LET m == MinOrZero({i \in DOMAIN d.buttons :
                        d.stale # i /\ Strategy2Match(d, i)})
      r == d.stale # 0 /\ (m = 0 \/ d.stale < m)
  IN  [idx |-> IF r THEN 0 ELSE m, raised |-> r]

\* Strategy 3: the first displayed button of a displayed footer with "video"
\* or "make" in its text; anything raised is swallowed by the bare except.
Strategy3Match(d, i) ==
  /\ d.buttons[i].footer /\ d.footerDisp
  /\ d.buttons[i].disp
  /\ \/ Contains(Lower(Strip(ElementText(d.buttons[i]))), "video")
     \/ Contains(Lower(Strip(ElementText(d.buttons[i]))), "make")
Strategy3(d) ==
  LET foot == {i \in DOMAIN d.buttons : d.buttons[i].footer}
      m == MinOrZero({i \in foot : d.stale # i /\ Strategy3Match(d, i)})
      r == d.footerDisp /\ d.stale \in foot /\ (m = 0 \/ d.stale < m)
  IN  IF r THEN 0 ELSE m

\* "button = None", then the three strategies under "if not button".
\* aborted: an exception left the strategies for the function's handler.
Resolve(d) ==
  LET s1 == Strategy1(d)
      s2 == Strategy2(d)
      s3 == Strategy3(d)
  IN  IF s1 # 0
      THEN [idx |-> s1, strategy |-> 1, tried |-> {1}, aborted |-> FALSE]
      ELSE IF s2.raised
      THEN [idx |-> 0, strategy |-> 0, tried |-> {1, 2}, aborted |-> TRUE]
      ELSE IF s2.idx # 0
      THEN [idx |-> s2.idx, strategy |-> 2, tried |-> {1, 2},
            aborted |-> FALSE]
      ELSE [idx |-> s3, strategy |-> IF s3 # 0 THEN 3 ELSE 0,
            tried |-> {1, 2, 3}, aborted |-> FALSE]

\* the click chain: (name, function) pairs tried in list order
ClickMethods == <<"JavaScript", "native", "ActionChains">>

\* "for method_name, click_func in [...]: try: click_func(); return True
\*  except Exception: continue".  outs[i]: what method i does when called:
\* "ok", or the exception it raises.  tried: how many methods were called;
\* used: the one that completed (0: none); interrupted: a KeyboardInterrupt
\* left the loop.
ClickChainAll(outs) ==
  LET oks == {i \in DOMAIN outs : outs[i] = "ok"}
  IN  [tried |-> Len(outs),
       used |-> IF oks = {} THEN 0 ELSE CHOOSE i \in oks : \A j \in oks : j <= i,
       interrupted |-> FALSE]
ClickChain(outs) ==
  LET stop == MinOrZero({i \in DOMAIN outs : outs[i] # "Exception"})
  IN  IF stop = 0
      THEN [tried |-> Len(outs), used |-> 0, interrupted |-> FALSE]
      ELSE [tried |-> stop,
            used |-> IF outs[stop] = "ok" THEN stop ELSE 0,
            interrupted |-> outs[stop] = "KeyboardInterrupt"]

\* self.wait.until(presence_of_element_located(textarea)): TimeoutException
\* is caught and the function goes on; anything else leaves the function.
\* WebDriverWait(...).until(presence of a textarea) in its own try: a
\* TimeoutException is caught and the phase goes on to the search; whatever
\* else the wait raises leaves by the handler of the whole phase.  TRUE when
\* outcome o of the wait ends the phase.
EditorWaitAborts(o) == o # "present"
EditorWait(o) == o \notin {"present", "timeout"}

EnterClickMakeVideo ==
  /\ pc = "click_make_video_button"
  /\ Invoke("click_make_video_button")
  /\ \/ \E o \in {"present", "timeout"} :
          /\ events' = IF o = "timeout" THEN events \cup {"timeout:editor"}
                       ELSE events
          /\ IF EditorWait(o)
             THEN Returns("click_make_video_button", FALSE)
             ELSE /\ pc' = "mv_resolve"
                  /\ UNCHANGED <<rets, retval>>
     \/ \E exc \in Excs :
          Raises("click_make_video_button", exc, "editor_wait", FALSE)
  /\ clicks' = NoClicks
  /\ UNCHANGED <<sess, t, chip_divs, mv, video_element, flags, out,
                 textareas, videos,
                 hist>>
  /\ UNCHANGED twitter

\* the strategies, then "text = button.text.strip()", the two attributes and
\* the scroll into view
ResolveMakeVideo ==
  /\ pc = "mv_resolve"
  /\ \E d \in Doms, scroll \in {"ok"} \cup Excs :
       LET r == Resolve(d) IN
       /\ resolution' = [tried |-> r.tried, aborted |-> r.aborted]
       /\ IF r.aborted
          THEN /\ Returns("click_make_video_button", FALSE)
               /\ events' = events \cup {"Exception:strategy2"}
               /\ dom' = d
               /\ UNCHANGED <<button, flags>>
          ELSE IF r.idx = 0
          THEN /\ Returns("click_make_video_button", FALSE)
               /\ events' = events
               /\ UNCHANGED <<dom, button, flags>>
          ELSE IF d.stale = r.idx
          THEN /\ Returns("click_make_video_button", FALSE)
               /\ events' = events \cup {"Exception:button_text"}
               /\ UNCHANGED <<dom, button, flags>>
          ELSE /\ flags' = [flags EXCEPT
                    !.make_video_button_found = TRUE,
                    !.make_video_button_text =
                        Strip(ElementText(d.buttons[r.idx]))]
               /\ IF scroll = "ok"
                  THEN /\ pc' = "mv_click"
                       /\ dom' = d
                       /\ button' = [idx |-> r.idx, strategy |-> r.strategy]
                       /\ UNCHANGED <<rets, retval, events>>
                  ELSE /\ Raises("click_make_video_button", scroll,
                                 "mv_scroll", FALSE)
                       /\ UNCHANGED <<dom, button>>
       /\ located' = IF r.aborted THEN 0 ELSE r.strategy
  /\ UNCHANGED <<calls, sess, t, chip_divs, clickOuts, attempts, methodUsed,
                 video_element, out, clicks, textareas, videos, early>>
  /\ UNCHANGED twitter

\* the locals dom and button go out of scope when the function is left
ClickMakeVideo ==
  /\ pc = "mv_click"
  /\ \E outs \in [1..Len(ClickMethods) -> {"ok"} \cup Excs] :
       LET c == ClickChain(outs) IN
       /\ clickOuts' = outs
       /\ attempts' = SubSeq(ClickMethods, 1, c.tried)
       /\ methodUsed' = IF c.used = 0 THEN "none" ELSE ClickMethods[c.used]
       /\ IF c.interrupted
          THEN Raises("click_make_video_button", "KeyboardInterrupt",
                      "mv_click", FALSE)
          ELSE Returns("click_make_video_button", c.used # 0)
               /\ events' = events
  /\ dom' = NoDom
  /\ button' = NoButton
  /\ resolution' = NoResolution
  /\ UNCHANGED <<calls, sess, t, chip_divs, video_element, flags, out, obs>>
  /\ UNCHANGED twitter

\* -------------------------------------------------- wait_for_prompt_textarea
Placeholders == {"", "Type to customize video...", "Ask anything"}

\* any(keyword in placeholder.lower() for keyword in
\*     ["customize", "video", "describe", "prompt"])
PromptKeyword(placeholder) == placeholder = "Type to customize video..."

Textareas ==
  UNION {[1..n -> [disp : BOOLEAN, placeholder : Placeholders]] :
           n \in 0..MaxTextareas}

\* the poll's predicate: some displayed textarea has a prompt placeholder
PromptReady(tas) ==
  \E i \in DOMAIN tas : tas[i].disp /\ PromptKeyword(tas[i].placeholder)

EnterWaitPrompt ==
  /\ pc = "wait_for_prompt_textarea"
  /\ Invoke("wait_for_prompt_textarea")
  /\ t' = 0
  /\ pc' = "prompt_poll"
  /\ clickOuts' = <<>>
  /\ attempts' = <<>>
  /\ methodUsed' = "none"
  /\ UNCHANGED <<rets, retval, sess, chip_divs, dom, button, resolution,
                 video_element, flags, out, events, obs>>
  /\ UNCHANGED twitter

\* what wait_for_prompt_textarea returns when a poll found the textarea
\* ("ready"), when the 60 s ran out ("timeout": "proceeding anyway") and
\* when a driver call raised ("error": "proceeding anyway")
WaitResultHard(outcome) == outcome = "ready"
WaitResult(outcome) ==
  CASE outcome = "ready"   -> TRUE
    [] outcome = "timeout" -> TRUE
    [] outcome = "error"   -> TRUE

PromptPoll ==
  /\ pc = "prompt_poll"
  /\ t < Ticks(PromptMaxWait)
  /\ \/ \E tas \in Textareas :
          IF PromptReady(tas)
          THEN /\ flags' = [flags EXCEPT !.wait_time_worked = Elapsed(t)]
               /\ Returns("wait_for_prompt_textarea", WaitResult("ready"))
               /\ t' = 0
               /\ events' = events
          ELSE /\ pc' = "prompt_sleep"
               /\ UNCHANGED <<rets, retval, t, flags, events>>
     \/ \E exc \in Excs :
          /\ Raises("wait_for_prompt_textarea", exc, "prompt_poll",
                    WaitResult("error"))
          /\ t' = 0
          /\ UNCHANGED flags
  /\ UNCHANGED <<calls, sess, chip_divs, mv, video_element, out, obs>>
  /\ UNCHANGED twitter

PromptSleepStep ==
  /\ Sleep("wait_for_prompt_textarea", "prompt_sleep", "prompt_poll",
           PromptSleep, WaitResult("error"))
  /\ UNCHANGED <<calls, sess, chip_divs, mv, video_element, flags, out, obs>>
  /\ UNCHANGED twitter

\* "Timeout after ..., proceeding anyway": return True
PromptTimeout ==
  /\ pc = "prompt_poll"
  /\ t >= Ticks(PromptMaxWait)
  /\ Returns("wait_for_prompt_textarea", WaitResult("timeout"))
  /\ events' = events \cup {"timeout:prompt"}
  /\ t' = 0
  /\ UNCHANGED <<calls, sess, chip_divs, mv, video_element, flags, out, obs>>
  /\ UNCHANGED twitter

\* ----------------------------------------------------- find_and_enter_prompt
\* the first displayed textarea, whatever its placeholder; 0 for none
FirstDisplayed(tas) == MinOrZero({i \in DOMAIN tas : tas[i].disp})

\* scrollIntoView, click, clear, send_keys(prompt), send_keys(RETURN)
FillSteps == <<"scroll", "click", "clear", "send_keys", "submit">>

\* the sub-steps carried out when sub-step failAt raises (0: none raises):
\* the statements run in sequence, the first raise leaves the try block
FillDoneAll(failAt) == FillSteps
FillDone(failAt) ==
  SubSeq(FillSteps, 1, IF failAt = 0 THEN Len(FillSteps) ELSE failAt - 1)

\* "self.prompt_textarea_found = True; self.prompt_textarea_placeholder =
\* placeholder", assigned before the textarea is filled
TextareaFoundUnflagged(f, placeholder) ==
  [f EXCEPT !.prompt_textarea_placeholder = placeholder]
TextareaFound(f, placeholder) ==
  [f EXCEPT !.prompt_textarea_found = TRUE,
            !.prompt_textarea_placeholder = placeholder]

FindAndEnterPrompt ==
  /\ pc = "find_and_enter_prompt"
  /\ Invoke("find_and_enter_prompt")
  /\ \/ \E tas \in Textareas, failAt \in 0..Len(FillSteps), exc \in Excs :
          LET i == FirstDisplayed(tas) IN
          /\ textareas' = [queried |-> TRUE, els |-> tas,
                            steps |-> IF i = 0 THEN <<>> ELSE FillDone(failAt)]
          /\ IF i = 0
             THEN /\ Returns("find_and_enter_prompt", FALSE)
                  /\ UNCHANGED <<flags, events>>
             ELSE IF failAt # 0
             THEN /\ flags' = TextareaFound(flags, tas[i].placeholder)
                  /\ Raises("find_and_enter_prompt", exc,
                            "fill:" \o FillSteps[failAt], FALSE)
             ELSE /\ flags' = [TextareaFound(flags, tas[i].placeholder)
                                 EXCEPT !.video_generation_started = TRUE]
                  /\ Returns("find_and_enter_prompt", TRUE)
                  /\ events' = events
     \/ \E exc \in Excs :
          /\ Raises("find_and_enter_prompt", exc, "find_textareas", FALSE)
          /\ UNCHANGED <<flags, textareas>>
  /\ UNCHANGED <<sess, t, chip_divs, mv, video_element, out, clicks, videos,
                 hist>>
  /\ UNCHANGED twitter

\* -------------------------------------------------- monitor_video_generation
Srcs == {"", "blob:https://grok.com/1", "https://cdn/v.mp4", "about:blank"}

\* src and (src.startswith("blob:") or src.startswith("http"))
ValidSrcBlobOnly(src) == src = "blob:https://grok.com/1"
ValidSrc(src) == src \in {"blob:https://grok.com/1", "https://cdn/v.mp4"}

Videos == UNION {[1..n -> [disp : BOOLEAN, src : Srcs]] : n \in 0..MaxVideos}

\* the first video, in document order, that is displayed and has a valid src
AcceptedVideoAnySrc(vs) == MinOrZero({i \in DOMAIN vs : vs[i].disp})
AcceptedVideo(vs) ==
  MinOrZero({i \in DOMAIN vs : vs[i].disp /\ ValidSrc(vs[i].src)})

\* the single look for the download control after a video was accepted:
\* the button when a displayed button with "download" in its aria-label is
\* there, the video element otherwise
MonitorResultVideo(downloadButtonShown) == "video"
MonitorResult(downloadButtonShown) ==
  IF downloadButtonShown THEN "button" ELSE "video"

\* monitor_video_generation returns elem: "button", "video" or "None"
MonitorReturns(elem) ==
  /\ rets' = Append(rets, <<"monitor_video_generation", elem>>)
  /\ video_element' = elem
  /\ pc' = AfterMonitor(elem)
  /\ t' = 0
  /\ retval' = retval

\* its "except Exception: return None"
MonitorErrorResult == "None"

MonitorRaises(exc, at, said) ==
  IF Caught("Exception", exc)
  THEN /\ MonitorReturns(MonitorErrorResult)
       /\ events' = events \cup said \cup {exc \o ":" \o at}
  ELSE /\ pc' = "finally"
       /\ retval' = "False"
       /\ t' = 0
       /\ events' = events \cup said \cup {exc \o ":" \o at}
       /\ UNCHANGED <<rets, video_element>>

\* what the monitor prints on accepting a video and on its look for the
\* download button: "Video generated!", "Download button found!"
MonitorSays(shown) ==
  {"monitor:video_ready"}
    \cup (IF shown THEN {"monitor:download_button"} ELSE {})

\* What the page does while the monitor waits.  A video that has come to be
\* displayed with a well-formed src for good (videos.stableAt is set) is in
\* every later snapshot; until then a poll may see anything.
PageShows(vs) ==
  \/ videos.stableAt = -1
  \/ \E i \in DOMAIN vs :
        vs[i].disp /\ vs[i].src \in {"blob:https://grok.com/1",
                                     "https://cdn/v.mp4"}

\* the record of a poll at clock t that queried snapshot vs
Observe(vs) ==
  IF videos.on
  THEN [videos EXCEPT
          !.els = vs,
          !.idx = AcceptedVideo(vs),
          !.at = t,
          !.empties = IF /\ AcceptedVideo(vs) = 0
                         /\ \E i \in DOMAIN vs : vs[i].src = ""
                         /\ @ < 2
                      THEN @ + 1 ELSE @]
  ELSE videos

EnterMonitor ==
  /\ pc = "monitor_video_generation"
  /\ Invoke("monitor_video_generation")
  /\ t' = 0
  /\ pc' = "monitor_poll"
  /\ textareas' = NoTextareas
  /\ UNCHANGED <<rets, retval, sess, chip_divs, mv, video_element, flags,
                 out, events, clicks, videos,
                 hist>>
  /\ UNCHANGED twitter

MonitorPoll ==
  /\ pc = "monitor_poll"
  /\ t < Ticks(MonitorMaxWait)
  /\ \/ \E vs \in Videos, shown \in BOOLEAN :
          /\ PageShows(vs)
          /\ videos' = Observe(vs)
          /\ IF AcceptedVideo(vs) # 0
             THEN /\ flags' = [flags EXCEPT
                       !.video_generation_time = Elapsed(t)]
                  /\ MonitorReturns(MonitorResult(shown))
                  /\ events' = events \cup MonitorSays(shown)
             ELSE /\ pc' = "monitor_sleep"
                  /\ UNCHANGED <<rets, retval, t, video_element, flags,
                                 events>>
     \* a driver call raises before any video is accepted
     \/ \E exc \in Excs :
          /\ MonitorRaises(exc, "monitor_poll", {})
          /\ UNCHANGED <<flags, videos>>
     \* a driver call raises in the look for the download button
     \/ \E vs \in Videos, exc \in Excs :
          /\ PageShows(vs)
          /\ AcceptedVideo(vs) # 0
          /\ videos' = Observe(vs)
          /\ flags' = [flags EXCEPT !.video_generation_time = Elapsed(t)]
          /\ MonitorRaises(exc, "monitor_download_lookup",
                           MonitorSays(FALSE))
  /\ UNCHANGED <<calls, sess, chip_divs, mv, out, clicks, textareas,
                 hist>>
  /\ UNCHANGED twitter

MonitorSleepStep ==
  /\ pc = "monitor_sleep"
  /\ \/ /\ t' = t + MonitorSleep + Latency
        /\ pc' = "monitor_poll"
        \* during the sleep the video may come to be ready for good, at any
        \* moment from just after the poll to just before the next one
        /\ \E m \in {-1, t + 1, t + MonitorSleep + Latency} :
              videos' = IF videos.on /\ videos.stableAt = -1
                        THEN [videos EXCEPT !.stableAt = m]
                        ELSE videos
        /\ UNCHANGED <<rets, retval, video_element, events>>
     \/ /\ MonitorRaises("KeyboardInterrupt", "monitor_sleep", {})
        /\ UNCHANGED videos
  /\ UNCHANGED <<calls, sess, chip_divs, mv, flags, out, clicks, textareas,
                 hist>>
  /\ UNCHANGED twitter

\* "Timeout after 180s - video not generated": return None
MonitorTimeoutVideo == "video"
MonitorTimeoutResult == "None"

MonitorTimeout ==
  /\ pc = "monitor_poll"
  /\ t >= Ticks(MonitorMaxWait)
  /\ MonitorReturns(MonitorTimeoutResult)
  /\ events' = events \cup {"timeout:monitor"}
  /\ UNCHANGED <<calls, sess, chip_divs, mv, flags, out, obs>>
  /\ UNCHANGED twitter

\* ------------------------------------------------------------ download_video
\* element.tag_name == "video": search for the button, else click element
SearchesButtonNever(element) == FALSE
SearchesButton(element) == element = "video"

EnterDownload ==
  /\ pc = "download_video"
  /\ Invoke("download_video")
  /\ t' = 0
  /\ \/ /\ pc' = IF SearchesButton(video_element) THEN "dl_poll"
                 ELSE "dl_click"
        /\ UNCHANGED <<rets, retval, events>>
     \/ \E exc \in Excs : Raises("download_video", exc, "tag_name", FALSE)
  /\ UNCHANGED <<sess, chip_divs, mv, video_element, flags, out, obs>>
  /\ UNCHANGED twitter

DownloadPoll ==
  /\ pc = "dl_poll"
  /\ t < Ticks(DownloadMaxWait)
  /\ \/ \E shown \in BOOLEAN :
          /\ pc' = IF shown THEN "dl_click" ELSE "dl_sleep"
          /\ t' = IF shown THEN 0 ELSE t
          \* "Download button found!"
          /\ events' = IF shown THEN events \cup {"download:button_found"}
                       ELSE events
          /\ UNCHANGED <<rets, retval>>
     \/ \E exc \in Excs :
          /\ Raises("download_video", exc, "dl_poll", FALSE)
          /\ t' = 0
  /\ UNCHANGED <<calls, sess, chip_divs, mv, video_element, flags, out, obs>>
  /\ UNCHANGED twitter

DownloadSleepStep ==
  /\ Sleep("download_video", "dl_sleep", "dl_poll", DownloadSleep, FALSE)
  /\ UNCHANGED <<calls, sess, chip_divs, mv, video_element, flags, out, obs>>
  /\ UNCHANGED twitter

\* "Download button not found after 30s": return False
DownloadTimeoutClicked == TRUE
DownloadTimeoutResult == FALSE

DownloadTimeout ==
  /\ pc = "dl_poll"
  /\ t >= Ticks(DownloadMaxWait)
  /\ Returns("download_video", DownloadTimeoutResult)
  /\ events' = events \cup {"timeout:download"}
  /\ t' = 0
  /\ UNCHANGED <<calls, sess, chip_divs, mv, video_element, flags, out, obs>>
  /\ UNCHANGED twitter

\* element.click() inside a bare except, then the JS click outside of any
\* inner try; native, js: "ok" or the exception raised
DownloadClickedAnyway(native, js) == TRUE
DownloadClicked(native, js) == native = "ok" \/ js = "ok"

\* the chain run on the download button: the JS click only when the native
\* click raised
DownloadChain(native, js) ==
  LET done == Tried(<<native = "ok", js = "ok">>)
  IN  [site  |-> "download",
       names |-> SubSeq(DownloadMethods, 1, Len(done)),
       outs  |-> done]

\* what a bare "except:" around a call swallowed and the run went on from:
\* a KeyboardInterrupt raised while the call was in flight
Swallowed(raised, at) ==
  IF raised = "KeyboardInterrupt" /\ Caught("bare", raised)
  THEN {raised \o ":" \o at} ELSE {}

ClickDownload ==
  /\ pc = "dl_click"
  /\ \/ \E native \in {"ok"} \cup Excs, js \in {"ok"} \cup Excs :
          /\ clicks' = DownloadChain(native, js)
          /\ IF DownloadClicked(native, js)
             THEN /\ flags' = [flags EXCEPT !.video_downloaded = TRUE]
                  /\ Returns("download_video", TRUE)
                  /\ events' = events \cup Swallowed(native, "dl_native_click")
             ELSE /\ Raises("download_video", js, "dl_click", FALSE)
                  /\ UNCHANGED flags
     \* get_attribute, the scroll or a sleep raises
     \/ \E exc \in Excs :
          /\ Raises("download_video", exc, "dl_prepare", FALSE)
          /\ UNCHANGED <<flags, clicks>>
  /\ UNCHANGED <<calls, sess, t, chip_divs, mv, video_element, out,
                 textareas, videos,
                 hist>>
  /\ UNCHANGED twitter

\* -------------------------------------------------------- save_learning_data
\* the learning_data dict, as far as it depends on the run
make_video_button_xpath == "/html/body/div[7]/div/footer/div/div/div[1]/button"
make_video_identifier ==
  "XPath: /html/body/div[7]/div/footer/div/div/div[1]/button"
MakeRecord(f) ==
  [written |-> TRUE,
   make_video_button |->
     [found |-> f.make_video_button_found, text |-> f.make_video_button_text,
      xpath |-> make_video_button_xpath],
   wait_after_make_video |-> [seconds |-> f.wait_time_worked, max_wait |-> 60],
   prompt_textarea |->
     [found |-> f.prompt_textarea_found,
      placeholder |-> f.prompt_textarea_placeholder],
   video_generation |->
     [started |-> f.video_generation_started,
      time_seconds |-> f.video_generation_time],
   download |-> [success |-> f.video_downloaded],
   recommendations |->
     [make_video_identifier |-> make_video_identifier,
      wait_for_generation |->
        IF f.video_generation_time # 0 THEN f.video_generation_time ELSE 180,
      workflow_ready |->
        f.make_video_button_found /\ f.prompt_textarea_found]]

\* print_learning_summary(); save_learning_data()
SaveLearningData ==
  /\ pc = "summary"
  /\ \/ /\ record' = MakeRecord(flags)
        /\ saves' = saves + 1
        /\ pc' = "interactive_mode"
        /\ UNCHANGED <<retval, events>>
     \/ /\ pc' = "finally"
        /\ retval' = "False"
        /\ events' = events \cup {"KeyboardInterrupt:summary"}
        /\ UNCHANGED <<record, saves>>
  /\ clicks' = NoClicks
  /\ UNCHANGED <<calls, rets, sess, t, chip_divs, mv, video_element, flags,
                 textareas, videos,
                 hist>>
  /\ UNCHANGED twitter

\* ---------------------------------------------------------- interactive_mode
\* "while True: time.sleep(1)" until KeyboardInterrupt, which it catches;
\* run_automation then returns True
InteractiveModeResets ==
  /\ pc = "interactive_mode"
  /\ pc' = "finally"
  /\ retval' = "True"
  /\ events' = events \cup {"KeyboardInterrupt:interactive_mode"}
  /\ flags' = [flags EXCEPT !.video_generation_started = ~@]
  /\ UNCHANGED <<calls, rets, sess, t, chip_divs, mv, video_element, out,
                 obs>>
  /\ UNCHANGED twitter
InteractiveModeEnds ==
  /\ pc = "interactive_mode"
  /\ pc' = "finally"
  /\ retval' = "True"
  /\ UNCHANGED <<calls, rets, sess, t, chip_divs, mv, video_element, flags,
                 out, events, obs>>
  /\ UNCHANGED twitter
InteractiveMode ==
  /\ pc = "interactive_mode"
  /\ pc' = "finally"
  /\ retval' = "True"
  /\ events' = events \cup {"KeyboardInterrupt:interactive_mode"}
  /\ UNCHANGED <<calls, rets, sess, t, chip_divs, mv, video_element, flags,
                 out, obs>>
  /\ UNCHANGED twitter

\* ------------------------------------------------ run_automation: finally
\* "if self.driver: time.sleep(1); self.driver.quit()".  The sleep is
\* interruptible: a KeyboardInterrupt raised in it leaves run_automation
\* before quit() is reached.
Finally ==
  /\ pc = "finally"
  /\ \/ /\ driver = "None"
        /\ pc' = "returned"
        /\ UNCHANGED <<quit, events>>
     \/ /\ driver = "live"
        /\ quit' = TRUE
        /\ pc' = "returned"
        /\ events' = events
     \/ /\ driver = "live"
        /\ pc' = "raised"
        /\ events' = events \cup {"KeyboardInterrupt:finally"}
        /\ UNCHANGED quit
  /\ UNCHANGED <<calls, rets, retval, driver, t, chip_divs, mv,
                 video_element, flags, out, obs>>
  /\ UNCHANGED twitter

\* ---------------------------------------------------------------- the run
Next ==
  \/ SetupDriver
  \/ NavigateToGrok
  \/ UploadImage
  \/ EnterClickEdit
  \/ ChipPoll
  \/ ChipSleepStep
  \/ ChipTimeout
  \/ ClickChipAndEdit
  \/ EnterClickMakeVideo
  \/ ResolveMakeVideo
  \/ ClickMakeVideo
  \/ EnterWaitPrompt
  \/ PromptPoll
  \/ PromptSleepStep
  \/ PromptTimeout
  \/ FindAndEnterPrompt
  \/ EnterMonitor
  \/ MonitorPoll
  \/ MonitorSleepStep
  \/ MonitorTimeout
  \/ EnterDownload
  \/ DownloadPoll
  \/ DownloadSleepStep
  \/ DownloadTimeout
  \/ ClickDownload
  \/ SaveLearningData
  \/ InteractiveMode
  \/ Finally

Spec == Init /\ [][Next]_vars

\* ------------------------------------------- the monitor, polls observed
\* run_automation at its call of monitor_video_generation, every phase
\* before it having returned True
MonitorEntry ==
  /\ pc = "monitor_video_generation"
  /\ calls = <<"setup_driver", "navigate_to_grok", "upload_image",
               "click_edit_image_button", "click_make_video_button",
               "wait_for_prompt_textarea", "find_and_enter_prompt">>
  /\ rets = [i \in DOMAIN calls |-> <<calls[i], "True">>]
  /\ retval = "unset"
  /\ driver = "live"
  /\ quit = FALSE
  /\ t = 0
  /\ chip_divs = "none"
  /\ dom = NoDom
  /\ button = NoButton
  /\ resolution = NoResolution
  /\ clickOuts = <<>>
  /\ attempts = <<>>
  /\ methodUsed = "none"
  /\ video_element = "unset"
  /\ flags = [InitFlags EXCEPT
                !.make_video_button_found = TRUE,
                !.make_video_button_text = "Make video",
                !.prompt_textarea_found = TRUE,
                !.prompt_textarea_placeholder = "Type to customize video...",
                !.video_generation_started = TRUE]
  /\ record = NoRecord
  /\ saves = 0
  /\ events = {}
  /\ clicks = NoClicks
  /\ textareas = NoTextareas
  /\ early = NoEarly
  /\ located = 1
  /\ TwitterInit

InitMonitor ==
  /\ MonitorEntry
  /\ videos = [NoVideos EXCEPT !.on = TRUE]

NextMonitor ==
  \/ EnterMonitor
  \/ MonitorPoll
  \/ MonitorSleepStep
  \/ MonitorTimeout

SpecMonitor == InitMonitor /\ [][NextMonitor]_vars

\* ===================================================================
\* twitter_selenium_test.py: TwitterAutomationTester.run_test
\* ===================================================================
Urls == {"https://x.com/home", "https://x.com/i/flow/login", "https://x.com/",
         "about:blank"}
\* page_source.lower(), as far as the indicators look at it
Sources == {"sign in to x", "what is happening", ""}
Pages == [url : Urls, source : Sources, tweetButton : BOOLEAN]

\* '/home' in current_url; '/login' in current_url
HasHome(url)  == url = "https://x.com/home"
HasLogin(url) == url = "https://x.com/i/flow/login"

\* any(login_indicators)
LoginIndicators(p) == HasLogin(p.url) \/ p.source = "sign in to x"
\* any(logged_in_indicators); the tweet button's data-testid is in the page
\* source when the button is in the page
LoggedInIndicators(p) ==
  HasHome(p.url) \/ p.source = "what is happening" \/ p.tweetButton

\* check_if_logged_in on page p when no driver call raises: the login page
\* indicators win; then the logged-in indicators; then find_element on the
\* tweet button, NoSuchElementException meaning not logged in
CheckIfLoggedIn(p) ==
  IF LoginIndicators(p) THEN FALSE
  ELSE IF LoggedInIndicators(p) THEN TRUE
  ELSE p.tweetButton

Str(v) == IF v THEN "True" ELSE "False"

\* run_test after the first check: "if not is_logged_in:" the manual login
AfterCheck(v) ==
  IF v THEN "find_and_open_random_tweet" ELSE "wait_for_manual_login"
\* and after the check that follows wait_for_manual_login:
\* "if not self.check_if_logged_in(): return False"
AfterRecheckAnyway(v) == "find_and_open_random_tweet"
AfterRecheck(v) == IF v THEN "find_and_open_random_tweet" ELSE "finally"

TwInvoke(m) == tw_calls' = Append(tw_calls, m)

\* method m returns v and run_test goes on at next; "finally" is reached by
\* "return False"
TwReturns(m, v, next) ==
  /\ tw_rets' = Append(tw_rets, <<m, v>>)
  /\ tw_pc' = next
  /\ tw_retval' = IF next = "finally" THEN "False" ELSE tw_retval

\* exception exc leaves the method at "at" uncaught and reaches run_test's
\* "except KeyboardInterrupt" / "except Exception": return False
TwEscapes(exc, at) ==
  /\ tw_rets' = tw_rets
  /\ tw_pc' = "finally"
  /\ tw_retval' = "False"
  /\ tw_events' = tw_events \cup {exc \o ":" \o at}

\* a method whose body is inside "try ... except Exception": it returns v,
\* or onExc when a call raised an Exception; a KeyboardInterrupt escapes
\* next, nextExc: where run_test goes on with the one and the other value
TwMethod(m, v, onExc, next, nextExc) ==
  /\ TwInvoke(m)
  /\ \/ TwReturns(m, v, next) /\ tw_events' = tw_events
     \/ TwReturns(m, onExc, nextExc) /\ tw_events' = tw_events
     \/ TwEscapes("KeyboardInterrupt", m)

ToOpen(v)     == IF v = "True" THEN "open_twitter" ELSE "finally"
ToCheck(v)    == IF v = "True" THEN "check_if_logged_in" ELSE "finally"
ToFirst(v)    == AfterCheck(v = "True")
ToSecond(v)   == AfterRecheck(v = "True")
ToActions(v)  == "perform_human_like_actions"
ToDetect(v)   == "check_for_automation_detection"
ToKeepOpen(v) == "keep_open"

TwSetupDriver ==
  /\ tw_pc = "setup_driver"
  /\ \E created \in BOOLEAN :
       /\ tw_driver' = IF created THEN "live" ELSE "None"
       /\ TwMethod("setup_driver", Str(created), "False",
              ToOpen(Str(created)), ToOpen("False"))
  /\ UNCHANGED <<tw_quit, tw_page, tw_inputs>>
  /\ UNCHANGED grok

\* driver.get("https://twitter.com"): some page is shown
TwOpenTwitter ==
  /\ tw_pc = "open_twitter"
  /\ \E p \in Pages : tw_page' = p
  /\ TwMethod("open_twitter", "True", "False",
              ToCheck("True"), ToCheck("False"))
  /\ UNCHANGED <<tw_driver, tw_quit, tw_inputs>>
  /\ UNCHANGED grok

\* is_logged_in = self.check_if_logged_in()
TwCheckLoggedIn ==
  /\ tw_pc = "check_if_logged_in"
  /\ TwMethod("check_if_logged_in", Str(CheckIfLoggedIn(tw_page)), "False",
              ToFirst(Str(CheckIfLoggedIn(tw_page))), ToFirst("False"))
  /\ UNCHANGED <<tw_driver, tw_quit, tw_page, tw_inputs>>
  /\ UNCHANGED grok

TwEnterWait ==
  /\ tw_pc = "wait_for_manual_login"
  /\ TwInvoke("wait_for_manual_login")
  /\ tw_pc' = "wait_input"
  /\ UNCHANGED <<tw_rets, tw_retval, tw_driver, tw_quit, tw_page, tw_inputs,
                 tw_events>>
  /\ UNCHANGED grok

\* "while True: user_input = input(...)": meanwhile the user works in the
\* browser.  After "ready" the method reads current_url, outside of any try,
\* and returns True whatever the URL is.
TwInput ==
  /\ tw_pc = "wait_input"
  /\ \E p \in Pages :
       /\ tw_page' = p
       /\ \/ /\ tw_inputs < MaxInputs
             /\ tw_inputs' = tw_inputs + 1
             /\ UNCHANGED <<tw_pc, tw_rets, tw_retval, tw_events>>
          \/ /\ TwReturns("wait_for_manual_login", "True", "recheck")
             /\ UNCHANGED <<tw_inputs, tw_events>>
          \/ \E exc \in Excs :
               /\ TwEscapes(exc, "wait_for_manual_login")
               /\ UNCHANGED tw_inputs
  /\ UNCHANGED <<tw_calls, tw_driver, tw_quit>>
  /\ UNCHANGED grok

\* "if not self.check_if_logged_in(): ... return False"
TwRecheckLoggedIn ==
  /\ tw_pc = "recheck"
  /\ TwMethod("check_if_logged_in", Str(CheckIfLoggedIn(tw_page)), "False",
              ToSecond(Str(CheckIfLoggedIn(tw_page))), ToSecond("False"))
  /\ UNCHANGED <<tw_driver, tw_quit, tw_page, tw_inputs>>
  /\ UNCHANGED grok

\* its result only selects a message
TwFindAndOpenRandomTweet ==
  /\ tw_pc = "find_and_open_random_tweet"
  /\ \E opened \in BOOLEAN :
       TwMethod("find_and_open_random_tweet", Str(opened), "False",
              ToActions(Str(opened)), ToActions("False"))
  /\ UNCHANGED <<tw_driver, tw_quit, tw_page, tw_inputs>>
  /\ UNCHANGED grok

TwPerformHumanLikeActions ==
  /\ tw_pc = "perform_human_like_actions"
  /\ TwMethod("perform_human_like_actions", "None", "None",
              ToDetect("None"), ToDetect("None"))
  /\ UNCHANGED <<tw_driver, tw_quit, tw_page, tw_inputs>>
  /\ UNCHANGED grok

TwCheckForAutomationDetection ==
  /\ tw_pc = "check_for_automation_detection"
  /\ \E clean \in BOOLEAN :
       TwMethod("check_for_automation_detection", Str(clean), "False",
              ToKeepOpen(Str(clean)), ToKeepOpen("False"))
  /\ UNCHANGED <<tw_driver, tw_quit, tw_page, tw_inputs>>
  /\ UNCHANGED grok

\* "while True: time.sleep(1)" inside "except KeyboardInterrupt"; return True
TwKeepOpen ==
  /\ tw_pc = "keep_open"
  /\ tw_pc' = "finally"
  /\ tw_retval' = "True"
  /\ tw_events' = tw_events \cup {"KeyboardInterrupt:keep_open"}
  /\ UNCHANGED <<tw_calls, tw_rets, tw_driver, tw_quit, tw_page, tw_inputs>>
  /\ UNCHANGED grok

\* "if self.driver: human_delay(1, 2); self.driver.quit()"; the delay is
\* interruptible
TwFinally ==
  /\ tw_pc = "finally"
  /\ \/ /\ tw_driver = "None"
        /\ tw_pc' = "returned"
        /\ UNCHANGED <<tw_quit, tw_events>>
     \/ /\ tw_driver = "live"
        /\ tw_quit' = TRUE
        /\ tw_pc' = "returned"
        /\ UNCHANGED tw_events
     \/ /\ tw_driver = "live"
        /\ tw_pc' = "raised"
        /\ tw_events' = tw_events \cup {"KeyboardInterrupt:finally"}
        /\ UNCHANGED tw_quit
  /\ UNCHANGED <<tw_calls, tw_rets, tw_retval, tw_driver, tw_page, tw_inputs>>
  /\ UNCHANGED grok

NextTwitter ==
  \/ TwSetupDriver
  \/ TwOpenTwitter
  \/ TwCheckLoggedIn
  \/ TwEnterWait
  \/ TwInput
  \/ TwRecheckLoggedIn
  \/ TwFindAndOpenRandomTweet
  \/ TwPerformHumanLikeActions
  \/ TwCheckForAutomationDetection
  \/ TwKeepOpen
  \/ TwFinally

SpecTwitter == Init /\ [][NextTwitter]_vars

\* ===================================================================
\* Properties
\* ===================================================================
Finished == pc \in {"returned", "raised"}
Ending == pc \in {"finally", "returned", "raised"}
Last(q) == q[Len(q)]
Range(q) == {q[i] : i \in DOMAIN q}

\* C1: the phase functions are invoked only in the order setup_driver,
\* navigate_to_grok, upload_image, click_edit_image_button,
\* click_make_video_button, wait_for_prompt_textarea, find_and_enter_prompt,
\* monitor_video_generation, download_video: the invocations so far are a
\* prefix of that list (each at most once, none skipped, none repeated after
\* a later one) and every phase but the last invoked one has returned.
C1_Order ==
  <<"setup_driver", "navigate_to_grok", "upload_image",
    "click_edit_image_button", "click_make_video_button",
    "wait_for_prompt_textarea", "find_and_enter_prompt",
    "monitor_video_generation", "download_video">>
C1_PhaseOrder ==
  /\ Len(calls) <= Len(C1_Order)
  /\ \A i \in DOMAIN calls : calls[i] = C1_Order[i]
  /\ Len(rets) \in {Len(calls) - 1, Len(calls)}
  /\ \A i \in DOMAIN rets : rets[i][1] = calls[i]
C1_Witness == pc = "returned" /\ calls = C1_Order /\ Len(rets) = 9

\* C2: whenever run_automation has finished and a driver object had been
\* created, driver.quit() has been called.
C2_SessionReleased == Finished /\ driver = "live" => quit

\* C3: when setup_driver, navigate_to_grok, upload_image,
\* click_edit_image_button, click_make_video_button or find_and_enter_prompt
\* has returned False, it is the last phase invoked (no later phase, no second
\* invocation), the run is ending and the value run_automation returns is
\* False.
C3_Required ==
  {"setup_driver", "navigate_to_grok", "upload_image",
   "click_edit_image_button", "click_make_video_button",
   "find_and_enter_prompt"}
C3_FailedPhaseTerminates ==
  \A i \in DOMAIN rets :
    rets[i][1] \in C3_Required /\ rets[i][2] = "False" =>
      /\ i = Len(rets)
      /\ Len(calls) = i
      /\ Cardinality({j \in DOMAIN calls : calls[j] = rets[i][1]}) = 1
      /\ Ending
      /\ retval = "False"
C3_Witness ==
  /\ pc = "returned"
  /\ retval = "False"
  /\ rets # <<>>
  /\ Last(rets) = <<"click_make_video_button", "False">>

\* C4: when run_automation has returned after a required phase returned
\* False, the session was torn down and the run record was persisted by
\* save_learning_data.
C4_FatalOutcomePersisted ==
  /\ pc = "returned"
  /\ \E i \in DOMAIN rets :
       rets[i][1] \in C3_Required /\ rets[i][2] = "False"
  => /\ driver = "live" => quit
     /\ saves >= 1
     /\ record.written

C6_Loops ==
  { <<"chip_sleep", "click_edit_image_button">>,
    <<"prompt_sleep", "wait_for_prompt_textarea">>,
    <<"monitor_sleep", "monitor_video_generation">>,
    <<"dl_sleep", "download_video">> }
C6_InterruptObserved ==
  \A l \in C6_Loops :
    ("KeyboardInterrupt:" \o l[1]) \in events =>
      /\ Ending
      /\ Last(calls) = l[2]
      /\ retval = "False"
      /\ pc = "returned" => quit
C6_Witness ==
  /\ pc = "returned"
  /\ quit
  /\ "KeyboardInterrupt:prompt_sleep" \in events

\* C7: the button click_make_video_button goes on to click is the one
\* produced by the first strategy that yields a visible match: the displayed
\* element at the fixed XPath, else the first displayed button with "video"
\* in its text or aria-label, else the first displayed button of a displayed
\* footer with "video" or "make" in its text.  Stated for the snapshots in
\* which no element handle raises.
C7_Visible1(d) ==
  MinOrZero({i \in DOMAIN d.buttons : d.buttons[i].xp /\ d.buttons[i].disp})
C7_Visible2(d) ==
  MinOrZero({i \in DOMAIN d.buttons :
    /\ d.buttons[i].disp
    /\ d.buttons[i].label \in
         { [text |-> " Make video ", aria |-> ""],
           [text |-> "", aria |-> "Create VIDEO"] }})
C7_Visible3(d) ==
  MinOrZero({i \in DOMAIN d.buttons :
    /\ d.buttons[i].disp /\ d.buttons[i].footer /\ d.footerDisp
    /\ d.buttons[i].label.text \in {" Make video ", "Make"}})
C7_FirstVisible(d) ==
  IF C7_Visible1(d) # 0 THEN [idx |-> C7_Visible1(d), strategy |-> 1]
  ELSE IF C7_Visible2(d) # 0 THEN [idx |-> C7_Visible2(d), strategy |-> 2]
  ELSE [idx |-> C7_Visible3(d), strategy |-> 3]
C7_PriorityList ==
  pc = "mv_click" /\ dom.stale = 0 /\ C7_FirstVisible(dom).idx # 0
  => button = C7_FirstVisible(dom)

\* C8: the button click_make_video_button goes on to click was displayed
\* when it was selected.
C8_SelectedVisible == pc = "mv_click" => dom.buttons[button.idx].disp

\* C9: the search for the button is never aborted by an exception while a
\* later strategy remains untried.
C9_FallsThrough == resolution.aborted => resolution.tried = {1, 2, 3}

\* C10: the click chain of click_make_video_button calls its methods in the
\* declared order JavaScript, native, ActionChains; a method is called only
\* if all methods before it raised; the first method that completes is the
\* one reported, nothing is called after it and the phase returns True.
C10_Declared == <<"JavaScript", "native", "ActionChains">>
C10_ClickChainOrder ==
  clickOuts # <<>> =>
    /\ attempts # <<>>
    /\ \A i \in DOMAIN attempts :
         /\ attempts[i] = C10_Declared[i]
         /\ \A j \in 1..(i - 1) : clickOuts[j] = "Exception"
    /\ \A i \in DOMAIN clickOuts :
         clickOuts[i] = "ok" /\ (\A j \in 1..(i - 1) : clickOuts[j] = "Exception")
         => /\ Len(attempts) = i
            /\ methodUsed = C10_Declared[i]
            /\ Last(rets) = <<"click_make_video_button", "True">>
    /\ methodUsed # "none" => clickOuts[Len(attempts)] = "ok"
C10_Witness ==
  /\ clickOuts = <<"Exception", "ok", "ok">>
  /\ methodUsed = "native"
  /\ attempts = <<"JavaScript", "native">>
\* q is a prefix of r
IsPrefix(q, r) == Len(q) <= Len(r) /\ q = SubSeq(r, 1, Len(q))

\* C11: the click fallback order is fixed and is the same at every click
\* site: ActionChains (pointer emulation) first, then the native click, then
\* the script-level click.  So the methods a chain has called, at the Make
\* video button and at the chip, Edit image and download sites, are always
\* the first few of that list.
C11_Order == <<"ActionChains", "native", "JavaScript">>
C11_FixedOrder ==
  /\ IsPrefix(attempts, C11_Order)
  /\ IsPrefix(clicks.names, C11_Order)

\* C12: when every method of a click chain raised, the phase
\* (click_edit_image_button, click_make_video_button, download_video) has not
\* returned True: it returned False, or the interrupt that ended the chain is
\* on its way out; and no success flag is set: video_downloaded stays False
\* after the download chain, video_generation_started after the other two.
C12_AllRaised(outs) == outs # <<>> /\ \A i \in DOMAIN outs : ~outs[i]
C12_Phase ==
  CASE clicks.site \in {"chip", "edit"} -> "click_edit_image_button"
    [] clicks.site = "download" -> "download_video"
    [] OTHER -> "click_make_video_button"
C12_Failed(p) ==
  /\ Last(calls) = p
  /\ \/ Last(rets) = <<p, "False">>
     \/ /\ Ending
        /\ retval = "False"
        /\ Len(rets) < Len(calls)
C12_ChainFailureSurfaces ==
  /\ C12_AllRaised(clicks.outs) =>
       /\ C12_Failed(C12_Phase)
       /\ ~flags.video_downloaded
       /\ clicks.site # "download" => ~flags.video_generation_started
  /\ /\ clickOuts # <<>>
     /\ Len(attempts) = Len(clickOuts)
     /\ \A i \in DOMAIN clickOuts : clickOuts[i] # "ok"
     => /\ C12_Failed("click_make_video_button")
        /\ methodUsed = "none"
        /\ ~flags.video_generation_started
        /\ ~flags.video_downloaded
C12_Witness ==
  /\ clicks.site = "download"
  /\ clicks.outs = <<FALSE, FALSE>>
  /\ Last(rets) = <<"download_video", "False">>
  /\ ~flags.video_downloaded

\* the monitor has returned value v
MonitorReturned(v) ==
  /\ Len(rets) = Len(calls)
  /\ Last(rets) = <<"monitor_video_generation", v>>

\* C13: the monitor returns a non-None element only if, on the poll it returns
\* from, some video was displayed with a src that is non-empty and starts
\* with "blob:" or "http".  A video that is not displayed, or whose src is
\* empty or malformed, is never the accepted one, and among several videos
\* that qualify the first in document order is accepted.
C13_Qualifies(v) ==
  /\ v.disp
  /\ v.src # ""
  /\ v.src \in {"blob:https://grok.com/1", "https://cdn/v.mp4"}
C13_AcceptsOnlyReady ==
  /\ videos.idx # 0 =>
       /\ videos.idx \in DOMAIN videos.els
       /\ C13_Qualifies(videos.els[videos.idx])
       /\ \A j \in 1..(videos.idx - 1) : ~C13_Qualifies(videos.els[j])
  /\ MonitorReturned("video") \/ MonitorReturned("button") =>
       /\ videos.idx # 0
       /\ videos.at < Ticks(MonitorMaxWait)
       /\ flags.video_generation_time = Elapsed(videos.at)
C13_Witness ==
  /\ MonitorReturned("video")
  /\ Len(videos.els) = 2
  /\ C13_Qualifies(videos.els[1])
  /\ C13_Qualifies(videos.els[2])
  /\ videos.idx = 1

\* no driver call raised inside the monitor
C14_NoFault ==
  events \cap {"Exception:monitor_poll",
               "Exception:monitor_download_lookup"} = {}

C15_LoopsReportTruly ==
  /\ pc = "chip_click" => chip_divs = "visible"
  /\ "timeout:prompt" \in events => flags.wait_time_worked = 0
  /\ "timeout:monitor" \in events =>
       video_element = "None" /\ flags.video_generation_time = 0
  /\ "timeout:download" \in events => ~flags.video_downloaded
  /\ pc \in {"chip_poll", "chip_sleep"} =>
       t < Ticks(ChipMaxWait) + ChipSleep + Latency
  /\ pc \in {"prompt_poll", "prompt_sleep"} =>
       t < Ticks(PromptMaxWait) + PromptSleep + Latency
  /\ pc \in {"monitor_poll", "monitor_sleep"} =>
       t < Ticks(MonitorMaxWait) + MonitorSleep + Latency
  /\ pc \in {"dl_poll", "dl_sleep"} =>
       t < Ticks(DownloadMaxWait) + DownloadSleep + Latency

\* C16: the value a loop gives back on timeout can be told from the one it
\* gives back on readiness and from the one it gives back when a driver call
\* raised: once wait_for_prompt_textarea or monitor_video_generation has
\* returned from its timeout, the value differs from both of the others.
C16_Str(b) == IF b THEN "True" ELSE "False"
C16_TimeoutDistinguished ==
  /\ /\ "timeout:prompt" \in events
     /\ Last(calls) = "wait_for_prompt_textarea"
     => \E v \in {"True", "False"} :
          /\ Last(rets) = <<"wait_for_prompt_textarea", v>>
          /\ v # C16_Str(WaitResult("ready"))
          /\ v # C16_Str(WaitResult("error"))
  /\ /\ "timeout:monitor" \in events
     /\ Last(calls) = "monitor_video_generation"
     => \E v \in {"None", "video", "button"} :
          /\ MonitorReturned(v)
          /\ v \notin {"video", "button"}
          /\ v # MonitorErrorResult

\* C17: the editor-ready wait of click_make_video_button is soft.  When it
\* timed out the phase did not stop there: it is at the search for the
\* button, or has run it; and the phase's result is what the search and the
\* click chain make it: True exactly when a click method completed.
C17_EditorTimeoutIsSoft ==
  "timeout:editor" \in events /\ Last(calls) = "click_make_video_button" =>
    /\ \/ pc = "mv_resolve"
       \/ resolution.tried # {}
       \/ clickOuts # <<>>
    /\ Last(rets) = <<"click_make_video_button", "True">>
         <=> methodUsed # "none"
    /\ Last(rets) = <<"click_make_video_button", "False">>
         => \/ resolution.tried # {}
            \/ /\ clickOuts # <<>>
               /\ \A i \in DOMAIN clickOuts : clickOuts[i] = "Exception"
C17_Witness ==
  /\ "timeout:editor" \in events
  /\ Last(rets) = <<"click_make_video_button", "True">>
  /\ methodUsed = "native"

\* C18: the prompt wait is a soft timeout: after 60 s without a match
\* wait_for_prompt_textarea returns True and find_and_enter_prompt is the
\* next phase invoked.  And when the page has no displayed textarea at the
\* time find_and_enter_prompt queries it, that phase returns False,
\* video_generation_started stays False, the monitor is never invoked and
\* the run ends with False.
C18_NoneDisplayed ==
  /\ textareas.queried
  /\ \A i \in DOMAIN textareas.els : ~textareas.els[i].disp
C18_SoftTimeoutFailsCleanly ==
  /\ "timeout:prompt" \in events =>
       /\ <<"wait_for_prompt_textarea", "True">> \in Range(rets)
       /\ \/ pc = "find_and_enter_prompt"
          \/ "find_and_enter_prompt" \in Range(calls)
  /\ C18_NoneDisplayed =>
       /\ Last(calls) = "find_and_enter_prompt"
       /\ Last(rets) = <<"find_and_enter_prompt", "False">>
       /\ ~flags.prompt_textarea_found
       /\ ~flags.video_generation_started
       /\ Ending
       /\ retval = "False"
C18_Witness ==
  /\ "timeout:prompt" \in events
  /\ C18_NoneDisplayed
  /\ Len(textareas.els) = 2
  /\ pc = "returned"
  /\ retval = "False"

\* the prompt wait returned because a poll found the textarea
C19_WaitSucceeded ==
  /\ <<"wait_for_prompt_textarea", "True">> \in Range(rets)
  /\ "timeout:prompt" \notin events
  /\ "Exception:prompt_poll" \notin events

\* C19: whenever the prompt wait succeeded, the textarea find_and_enter_prompt
\* types into is a displayed textarea whose placeholder contains one of
\* "customize", "video", "describe", "prompt".
C19_TypesIntoPromptTextarea ==
  C19_WaitSucceeded /\ flags.prompt_textarea_found =>
    \E i \in DOMAIN textareas.els \cup {0} :
      \/ /\ i = 0
         /\ ~textareas.queried
         /\ flags.prompt_textarea_placeholder = "Type to customize video..."
      \/ /\ i # 0
         /\ textareas.els[i].disp
         /\ textareas.els[i].placeholder = "Type to customize video..."
         /\ flags.prompt_textarea_placeholder = textareas.els[i].placeholder

\* the driver calls that raised an Exception
C20_Faults == {e \in events : SubSeq(e, 1, 10) = "Exception:"}

\* C20: a session fault is always fatal: once a driver call has raised, in
\* whatever phase (wait_for_prompt_textarea and monitor_video_generation
\* included), no further phase is invoked, the run is on its way out with
\* False, and it has called quit() on the driver it had when run_automation
\* has returned.
C20_FaultIsFatal ==
  C20_Faults # {} =>
    /\ Ending
    /\ retval = "False"
    /\ pc = "returned" /\ driver = "live" => quit

\* the phase invoked last
Current == IF calls = <<>> THEN "none" ELSE Last(calls)

\* C21: no element reference outlives the phase that resolved it: the chips,
\* the DOM snapshot and the button of the Make video search are gone once
\* their phase is left, and no phase is handed an element that an earlier
\* phase obtained, so download_video does not run on an element the monitor
\* resolved.
C21_NoHandOver ==
  /\ Current # "click_edit_image_button" => chip_divs = "none"
  /\ Current # "click_make_video_button" => dom = NoDom /\ button = NoButton
  /\ Current = "download_video" => video_element \notin {"video", "button"}

\* C22: on accepting a video the monitor looks once for the download control
\* and does not poll again: it returns the button exactly when that look
\* found a displayed download button and the video otherwise.  And
\* download_video runs its own bounded search exactly when it was handed
\* the video.
C22_Searching ==
  \/ pc \in {"dl_poll", "dl_sleep"}
  \/ events \cap {"download:button_found", "timeout:download",
                  "Exception:dl_poll", "KeyboardInterrupt:dl_poll",
                  "KeyboardInterrupt:dl_sleep"} # {}
C24_Step ==
  /\ saves' # saves =>
       /\ saves = 0
       /\ saves' = 1
       /\ pc = "summary"
       /\ Current \in {"monitor_video_generation", "download_video"}
       /\ record' = MakeRecord(flags)
  /\ saves = 1 =>
       /\ flags' = flags
       /\ record' = record
       /\ calls' = calls
C24_WriteOnce == [][C24_Step]_vars
C24_Witness ==
  /\ saves = 1
  /\ pc = "returned"
  /\ record = MakeRecord(flags)

\* C25: the learning hints never change what the run does.  Whatever
\* upload_learning_data.json held, upload_image returns what it returns with
\* no hints: True when the file input took the image, False when there was
\* no file input or a driver call raised; and with empty hints the wait
\* after the upload is 5 s.
C25_HintsDoNotMatter ==
  /\ early.phase = "upload_image" /\ Len(rets) = Len(calls) =>
       Last(rets) =
         <<"upload_image", IF early.ui = "ok" THEN "True" ELSE "False">>
  /\ early.hints.json \in {"None", "[]", "{}"} => early.wait = "5"

\* C26: no failed attempt is silently discarded: when a click of the chain
\* run last before the save raised, the record that is persisted holds
\* more than the attributes give: a count or a cause of that failure.
C26_Step ==
  /\ record'.written
  /\ ~record.written
  /\ \E i \in DOMAIN clicks.outs : ~clicks.outs[i]
  => record' # MakeRecord(flags)
C26_FailuresRetained == [][C26_Step]_vars

\* C27: scenario B.  When strategy 1 did not yield the Make video button and
\* strategy 2 did, the persisted record identifies strategy 2: it does not
\* name the fixed XPath of strategy 1 as what located the button.
C27_RecordNames(rec) ==
  IF /\ rec.make_video_button.xpath = make_video_button_xpath
     /\ rec.recommendations.make_video_identifier = make_video_identifier
  THEN 1 ELSE 2
C27_RecordShowsStrategy ==
  record.written /\ located = 2 => C27_RecordNames(record) = 2

\* C28: fill-and-submit on the first displayed textarea carries out scroll,
\* click, clear, send_keys(prompt), send_keys(RETURN) in that order.  When a
\* sub-step raises, the later ones, RETURN among them, are not carried out,
\* find_and_enter_prompt fails (returns False, or the interrupt ends the
\* run), video_generation_started stays False and the run ends with False.
\* When all five were carried out it returns True with the flag set.
C28_Filling ==
  /\ Current = "find_and_enter_prompt"
  /\ textareas.queried
  /\ FirstDisplayed(textareas.els) # 0
C28_FillAndSubmit ==
  C28_Filling =>
    /\ IsPrefix(textareas.steps, FillSteps)
    /\ textareas.steps # FillSteps =>
         /\ "submit" \notin Range(textareas.steps)
         /\ C12_Failed("find_and_enter_prompt")
         /\ ~flags.video_generation_started
         /\ Ending
         /\ retval = "False"
    /\ textareas.steps = FillSteps =>
         /\ Last(rets) = <<"find_and_enter_prompt", "True">>
         /\ flags.video_generation_started
         /\ ~Ending
C28_Witness ==
  /\ C28_Filling
  /\ textareas.steps = <<"scroll", "click", "clear">>
  /\ Last(rets) = <<"find_and_enter_prompt", "False">>
  /\ ~flags.video_generation_started
  /\ pc = "returned"

\* C29: polling never busy-spins.  In each of the four polling loops (chip
\* wait 0.5 s, prompt-textarea wait 1 s, generation monitor 2 s, download-
\* button wait 1 s; here in half seconds) an evaluation of the loop's
\* predicate is never followed directly by another one: the predicate is
\* evaluated either on entry to the loop, with the loop's clock at 0, or
\* after the loop's sleep, and then the clock has advanced by one interval on
\* top of the time the driver calls took.
C29_Loops ==
  { [poll |-> "chip_poll",    sleep |-> "chip_sleep",    interval |-> 1],
    [poll |-> "prompt_poll",  sleep |-> "prompt_sleep",  interval |-> 2],
    [poll |-> "monitor_poll", sleep |-> "monitor_sleep", interval |-> 4],
    [poll |-> "dl_poll",      sleep |-> "dl_sleep",      interval |-> 2] }
C29_Step ==
  \A l \in C29_Loops :
    /\ pc = l.poll => pc' # l.poll
    /\ pc' = l.poll =>
         \/ pc = l.sleep /\ t' = t + l.interval + Latency
         \/ pc \notin {l.poll, l.sleep} /\ t' = 0
    /\ pc = l.sleep /\ pc' # l.sleep => pc' = l.poll \/ Ending'
C29_NoBusySpin == [][C29_Step]_vars
C29_Witness ==
  /\ pc = "dl_poll"
  /\ t = 2 * (2 + Latency)
  /\ Current = "download_video"

\* C30: the focus nudge is tolerant on failure.  When the pointer action of
\* focus_page raised in navigate_to_grok or upload_image and nothing else of
\* the phase failed, the phase has returned True, the run has not ended and
\* goes on with the next phase.
C30_NudgeTolerated ==
  early.focus =>
    /\ Len(rets) = Len(calls)
    /\ Last(rets) = <<early.phase, "True">>
    /\ ~Ending
    /\ pc = IF early.phase = "navigate_to_grok" THEN "upload_image"
            ELSE "click_edit_image_button"
C30_Witness ==
  /\ early.focus
  /\ early.phase = "upload_image"
  /\ Last(rets) = <<"upload_image", "True">>
  /\ pc = "click_edit_image_button"

\* C31: click_edit_image_button acts only on chips that were visible.  It
\* goes on to inspect and click chips only with chips that were displayed
\* on the poll that ended the wait; when the 15 s ran out with no chip
\* displayed, chips in the DOM or not, it has returned False and no click
\* was attempted.
C31_OnlyVisibleChips ==
  /\ Current = "click_edit_image_button"
  /\ pc = "chip_click"
  => chip_divs = "visible"

\* C32: in every reachable state the progress flags form a chain:
\* video_downloaded implies video_generation_started, which implies
\* prompt_textarea_found, which implies make_video_button_found; and
\* video_generation_time is non-zero only if video_generation_started.
C32_FlagChain ==
  /\ flags.video_downloaded => flags.video_generation_started
  /\ flags.video_generation_started => flags.prompt_textarea_found
  /\ flags.prompt_textarea_found => flags.make_video_button_found
  /\ flags.video_generation_time # 0 => flags.video_generation_started
C32_Witness ==
  /\ flags.video_downloaded
  /\ flags.video_generation_started
  /\ flags.prompt_textarea_found
  /\ flags.make_video_button_found
  /\ flags.video_generation_time # 0
  /\ Last(rets) = <<"download_video", "True">>

\* the record of a run in which everything was found, with the usual button
\* text and placeholder
C33_Typical ==
  MakeRecord([make_video_button_found |-> TRUE,
              make_video_button_text |-> "Make video",
              prompt_textarea_found |-> TRUE,
              prompt_textarea_placeholder |-> "Type to customize video...",
              wait_time_worked |-> 0,
              video_generation_started |-> TRUE,
              video_generation_time |-> 0,
              video_downloaded |-> FALSE])
\* a record with download.success and the timing fields blanked
C33_Mask(rec) ==
  [rec EXCEPT !.download.success = FALSE,
              !.wait_after_make_video.seconds = 0,
              !.video_generation.time_seconds = 0,
              !.recommendations.wait_for_generation = 180]
\* and with the button text and the placeholder blanked too
C33_MaskText(rec) ==
  [C33_Mask(rec) EXCEPT !.make_video_button.text = "",
                        !.prompt_textarea.placeholder = ""]
C33_AllFound ==
  /\ flags.make_video_button_found
  /\ flags.prompt_textarea_found
  /\ flags.video_generation_started

\* C33 as stated: whenever save_learning_data runs the three flags are True,
\* and persisted records differ in download.success and the timing fields
\* only: with those blanked every persisted record is the same record.
C33_OnlyOutcomeVaries ==
  /\ pc = "summary" => C33_AllFound
  /\ record.written =>
       /\ C33_AllFound
       /\ C33_Mask(record) = C33_Mask(C33_Typical)

\* C33 amended: whenever save_learning_data runs the three flags are True,
\* so every persisted record has workflow_ready, make_video_button.found
\* and video_generation.started true; persisted records differ in
\* download.success, the timing fields, make_video_button.text and
\* prompt_textarea.placeholder only.
C33_RecordOfFoundWorkflow ==
  /\ pc = "summary" => C33_AllFound
  /\ record.written =>
       /\ C33_AllFound
       /\ record.recommendations.workflow_ready
       /\ record.make_video_button.found
       /\ record.video_generation.started
       /\ C33_MaskText(record) = C33_MaskText(C33_Typical)
C33_Witness ==
  /\ record.written
  /\ record.recommendations.workflow_ready
  /\ record.make_video_button.text = "Make"
  /\ record.prompt_textarea.placeholder = "Ask anything"
  /\ ~record.download.success

\* the phases run_automation tests with "if not ...: return False"
C34_Required ==
  {"setup_driver", "navigate_to_grok", "upload_image",
   "click_edit_image_button", "click_make_video_button",
   "wait_for_prompt_textarea", "find_and_enter_prompt"}
\* an exception left a phase, or the summary and save, without being caught
C34_Escaped ==
  \/ Len(rets) < Len(calls)
  \/ "KeyboardInterrupt:summary" \in events

\* C34: when run_automation has returned, its value is True if and only if
\* every phase through find_and_enter_prompt returned True and nothing
\* escaped to run_automation's handlers before interactive_mode; what the
\* monitor and download_video returned plays no part.
C34_ReturnValue ==
  pc = "returned" =>
    /\ retval \in {"True", "False"}
    /\ retval = "True" <=>
         /\ \A p \in C34_Required : <<p, "True">> \in Range(rets)
         /\ ~C34_Escaped
C34_Witness ==
  /\ pc = "returned"
  /\ retval = "True"
  /\ Last(rets) = <<"monitor_video_generation", "None">>
  /\ "timeout:monitor" \in events

\* C35: once the record is persisted the run does not end by itself.  It is
\* in interactive_mode, with no value returned and driver.quit() not
\* called, until a KeyboardInterrupt arrives there; after that the run is in
\* its finally clause or past it with the value True, and when
\* run_automation has returned driver.quit() has been called.
C35_StaysUntilInterrupted ==
  saves = 1 =>
    \/ /\ pc = "interactive_mode"
       /\ ~quit
       /\ retval = "unset"
       /\ "KeyboardInterrupt:interactive_mode" \notin events
    \/ /\ Ending
       /\ "KeyboardInterrupt:interactive_mode" \in events
       /\ retval = "True"
       /\ pc = "returned" <=> quit
C35_Witness ==
  /\ saves = 1
  /\ pc = "returned"
  /\ quit
  /\ retval = "True"
  /\ "KeyboardInterrupt:interactive_mode" \in events

\* the places between driver creation and interactive_mode where a
\* KeyboardInterrupt is raised
C36_Places ==
  {"setup_driver", "navigate_to_grok", "upload_image", "chip_poll",
   "chip_sleep", "chip_click", "editor_wait", "mv_scroll", "mv_click",
   "prompt_poll", "prompt_sleep", "find_textareas", "fill:scroll",
   "fill:click", "fill:clear", "fill:send_keys", "fill:submit",
   "monitor_poll", "monitor_sleep", "monitor_download_lookup", "tag_name",
   "dl_poll", "dl_sleep", "dl_prepare", "dl_click", "dl_native_click",
   "summary"}

\* C36: a KeyboardInterrupt raised anywhere between driver creation and
\* interactive_mode, a click or lookup in flight included, stops the run:
\* from then on the run is in its finally clause or past it, so no further
\* phase is started, and its value is False.
C36_InterruptStops ==
  (\E at \in C36_Places : ("KeyboardInterrupt:" \o at) \in events) =>
    /\ Ending
    /\ retval = "False"

\* a displayed button with "download" in its aria-label was located, by the
\* monitor's look or by download_video's search
C37_ButtonLocated ==
  {"monitor:download_button", "download:button_found"} \cap events # {}

\* C37: video_downloaded is True only after a click on a download button
\* completed without raising: the native click, or the script click after
\* the native click raised; the button had been located displayed with an
\* aria-label containing "download"; and download_video returned True.  In
\* every other outcome of download_video it is False.
C37_DownloadedOnlyAfterClick ==
  /\ flags.video_downloaded =>
       /\ Last(rets) = <<"download_video", "True">>
       /\ C37_ButtonLocated
  /\ flags.video_downloaded /\ pc = "summary" =>
       /\ clicks.site = "download"
       /\ \/ clicks.names = <<"native">> /\ clicks.outs = <<TRUE>>
          \/ /\ clicks.names = <<"native", "JavaScript">>
             /\ clicks.outs = <<FALSE, TRUE>>
  /\ Current = "download_video" /\ Last(rets) # <<"download_video", "True">>
       => ~flags.video_downloaded
C37_Witness ==
  /\ flags.video_downloaded
  /\ pc = "summary"
  /\ clicks.outs = <<FALSE, TRUE>>
  /\ "download:button_found" \in events

\* run_test is in its finally clause or past it
C38_Ending == tw_pc \in {"finally", "returned", "raised"}
\* the re-check, the second call of check_if_logged_in, returned False
C38_RecheckFailed ==
  \E k \in DOMAIN tw_rets :
    /\ k > 1
    /\ tw_calls[k - 1] = "wait_for_manual_login"
    /\ tw_rets[k] = <<"check_if_logged_in", "False">>

\* C38: in run_test find_and_open_random_tweet is invoked only directly
\* after a check_if_logged_in that returned True: the first check, or the
\* re-check that follows wait_for_manual_login.  When the re-check returned
\* False the run ends with False and no tweet was opened.  When
\* find_and_open_random_tweet returned False the run goes on with
\* perform_human_like_actions: it has not ended unless something it ran
\* after that was interrupted or it was closed from the keep-open loop.
C38_TweetOnlyWhenLoggedIn ==
  /\ \A k \in DOMAIN tw_calls :
       tw_calls[k] = "find_and_open_random_tweet" =>
         /\ k > 1
         /\ tw_calls[k - 1] = "check_if_logged_in"
         /\ tw_rets[k - 1] = <<"check_if_logged_in", "True">>
         /\ k - 1 > 3 => tw_calls[k - 2] = "wait_for_manual_login"
  /\ C38_RecheckFailed =>
       /\ C38_Ending
       /\ tw_retval = "False"
       /\ "find_and_open_random_tweet" \notin Range(tw_calls)
  /\ <<"find_and_open_random_tweet", "False">> \in Range(tw_rets) =>
       \/ tw_pc = "perform_human_like_actions"
       \/ "perform_human_like_actions" \in Range(tw_calls)
C38_Witness ==
  /\ tw_calls = <<"setup_driver", "open_twitter", "check_if_logged_in",
                  "wait_for_manual_login", "check_if_logged_in",
                  "find_and_open_random_tweet", "perform_human_like_actions",
                  "check_for_automation_detection">>
  /\ tw_rets[3] = <<"check_if_logged_in", "False">>
  /\ tw_rets[5] = <<"check_if_logged_in", "True">>
  /\ tw_rets[6] = <<"find_and_open_random_tweet", "False">>
  /\ tw_inputs = 1
  /\ tw_pc = "returned"
  /\ tw_retval = "True"

====
